---- MODULE Spec2Model ----
(***************************************************************************)
(* Model of chartutil.CreateChart (internal/plugins/helm/v1/chartutil):    *)
(* one invocation of the chart acquisition pipeline, one action per        *)
(* library call or statement group of CreateChart and its helpers.         *)
(* Strings whose characters matter (chart names, Kind) are sequences of    *)
(* one-character strings; the other option strings are opaque.             *)
(***************************************************************************)
EXTENDS Integers, Sequences, FiniteSets, TLC

VARIABLES
    opts,      \* the CreateOptions passed to CreateChart (Chart, Repo, Version, GVK)
    source,    \* what the local filesystem holds at path opts.Chart
    source0,   \* what it held when CreateChart was called
    pc,        \* position of the invocation
    tmpDir,    \* the temporary directory: "unallocated", "present", "removed"
    ws,        \* chart directories inside tmpDir: set of [path, chart]
    archive,   \* the archive DownloadTo wrote into tmpDir
    loadFrom,  \* the argument of createChartFromDisk: "local" or "archive"
    chart,     \* the callee's local chart value (scaffoldChart / fetchChart)
    gvk,       \* the callee's copy of opts.GVK
    r, c, err, \* the named results of CreateChart
    out,       \* the bytes.Buffer of fetchChartDependencies
    stdout,    \* what was printed with fmt.Println
    logged,    \* number of log.Errorf calls
    calls,     \* how many times each library call was made
    net,       \* network operations performed
    optsRead,  \* which option fields the invocation has consulted
    stages,    \* the stages completed, in order
    depPath,   \* the absChartPath handed to fetchChartDependencies
    rmFailed   \* whether os.RemoveAll returned an error

vars == <<opts, source, source0, pc, tmpDir, ws, archive, loadFrom, chart, gvk,
          r, c, err, out, stdout, logged, calls, net, optsRead, stages,
          depPath, rmFailed>>

-----------------------------------------------------------------------------
(* Bounds *)

\* largest number of dependencies a chart declares
MaxDeps == 1

\* largest number of diagnostic lines the dependency manager writes
MaxOut == 1

-----------------------------------------------------------------------------
(* Program constants *)

DefaultGroup == "charts"

DefaultVersion == "v1alpha1"

-----------------------------------------------------------------------------
(* Values *)

Nil == [nil |-> TRUE]

Malformed == [malformed |-> TRUE]

Absent == [absent |-> TRUE]

LowerChars == <<"a", "f", "m", "o", "p", "y">>

UpperChars == <<"A", "F", "M", "O", "P", "Y">>

IsLower(v) == \E i \in 1..Len(LowerChars) : LowerChars[i] = v

IsUpper(v) == \E i \in 1..Len(UpperChars) : UpperChars[i] = v

IsDelim(v) == v \in {"_", " ", "-", "."}

ToUpperChar(v) ==
    IF IsLower(v)
    THEN UpperChars[CHOOSE i \in 1..Len(LowerChars) : LowerChars[i] = v]
    ELSE v

ToLowerChar(v) ==
    IF IsUpper(v)
    THEN LowerChars[CHOOSE i \in 1..Len(UpperChars) : UpperChars[i] = v]
    ELSE v

\* strings.ToLower
ToLower(s) == [i \in 1..Len(s) |-> ToLowerChar(s[i])]

\* strcase.ToCamel on letters and delimiters: delimiters are dropped and the
\* letter after one (and the first letter) is upper-cased.
RECURSIVE ToCamelFrom(_, _, _)
ToCamelFrom(s, i, capNext) ==
    IF i > Len(s) THEN <<>>
    ELSE LET v == s[i] IN
         IF IsUpper(v) THEN <<v>> \o ToCamelFrom(s, i + 1, FALSE)
         ELSE IF IsLower(v)
              THEN <<(IF capNext THEN ToUpperChar(v) ELSE v)>>
                       \o ToCamelFrom(s, i + 1, FALSE)
              ELSE ToCamelFrom(s, i + 1, IsDelim(v))

ToCamel(s) == ToCamelFrom(s, 1, TRUE)

\* chart names the environment may present
ChartNames ==
    { <<"m", "y", "-", "a", "p", "p">>, <<"a", "p", "p">>, <<"-">> }

\* Kind values the caller may pass
KindOptions == { <<>>, <<"F", "o", "o">> }

\* a chart on disk: its name, the dependencies Chart.yaml declares and the
\* dependencies present in its charts/ directory
DiskCharts ==
    { ch \in [name : ChartNames, declared : 0..MaxDeps, vendored : 0..MaxDeps] :
        ch.vendored <= ch.declared }

\* loader.Load: the in-memory snapshot of a chart on disk
Snapshot(d) == [name |-> d.name, declared |-> d.declared, deps |-> d.vendored]

\* loader.Load fails on a malformed chart; it may also fail on an I/O error
LoadOutcomes(d) == IF d = Malformed THEN {FALSE} ELSE BOOLEAN

\* what the dependency manager may have written to its Out buffer
OutBuffers ==
    UNION { [1..n -> {"line"}] : n \in 0..MaxOut }

CallNames ==
    { "TempDir", "Stat", "Create", "Load", "SaveDir", "FindChartInRepoURL",
      "DownloadTo", "Build", "RemoveAll" }

Called(op) == [calls EXCEPT ![op] = @ + 1]

\* fmt.Errorf("<wrap>: %v", cause)
Errorf(wrap, cause) == [wrap |-> wrap, cause |-> cause]

\* the chart directory at a path of the workspace
AtPath(p) == CHOOSE e \in ws : e.path = p

HasPath(p) == \E e \in ws : e.path = p

\* writing chart d at path p of the workspace
WriteDir(p, d) == { e \in ws : e.path # p } \cup { [path |-> p, chart |-> d] }

-----------------------------------------------------------------------------
(* Initial state: the options and the filesystem at the time of the call *)

Init ==
    /\ opts \in [ Chart   : {"", "./local-chart", "myrepo/app"},
                  Repo    : {"", "https://example.com/charts"},
                  Version : {"", "1.2.3"},
                  Group   : {"", "apps"},
                  GVKVersion : {"", "v1"},
                  Kind    : KindOptions ]
    /\ source \in {Absent, Malformed} \cup DiskCharts
    /\ (opts.Chart = "" => source = Absent)
    /\ source0 = source
    /\ pc = "start"
    /\ tmpDir = "unallocated"
    /\ ws = {}
    /\ archive = Absent
    /\ loadFrom = "none"
    /\ chart = Nil
    /\ gvk = [Group |-> opts.Group, Version |-> opts.GVKVersion, Kind |-> opts.Kind]
    /\ r = Nil
    /\ c = Nil
    /\ err = Nil
    /\ out = <<>>
    /\ stdout = <<>>
    /\ logged = 0
    /\ calls = [op \in CallNames |-> 0]
    /\ net = {}
    /\ optsRead = {}
    /\ stages = <<>>
    /\ depPath = Nil
    /\ rmFailed = FALSE

-----------------------------------------------------------------------------
(* Returning from CreateChart *)

\* A deviant return: the function is left without running the deferred removal
ReturnWithoutDefer(rv, cv, ev) ==
    /\ r' = rv
    /\ c' = cv
    /\ err' = ev
    /\ pc' = "done"

\* A return statement after the defer statement of line 125: the named results
\* are set, then the deferred function runs
Return(rv, cv, ev) ==
    /\ r' = rv
    /\ c' = cv
    /\ err' = ev
    /\ pc' = "defer"

\* A deviant failure return: the chart value at hand is handed back with the error
AbortKeepingChart(e) == Return(Nil, chart, e)

\* return nil, nil, <error>
Abort(e) == Return(Nil, Nil, e)

\* The wrapping of each failing stage's error in CreateChart
UnwrappedErr(cause) == Errorf("", cause)

ScaffoldErr(cause) == Errorf("failed to scaffold default chart", cause)

\* A deviant wrapping: a failure inside fetchChart is reported as a load failure
\* when loader.Load caused it
FetchErrByCause(cause) ==
    Errorf(IF cause = "Load" THEN "failed to load chart" ELSE "failed to fetch chart",
           cause)

FetchErr(cause) == Errorf("failed to fetch chart", cause)

DepsErr(cause) == Errorf("failed to fetch chart dependencies", cause)

LoadErr(cause) == Errorf("failed to load chart", cause)

-----------------------------------------------------------------------------
(* CreateChart, lines 121-124: ioutil.TempDir *)

TempDir ==
    /\ pc = "start"
    /\ calls' = Called("TempDir")
    /\ \E ok \in BOOLEAN :
         IF ok
         THEN /\ tmpDir' = "present"
              /\ pc' = "branch"
              /\ UNCHANGED <<r, c, err>>
         ELSE /\ tmpDir' = "unallocated"
              /\ r' = Nil
              /\ c' = Nil
              /\ err' = UnwrappedErr("TempDir")
              /\ pc' = "done"
    /\ UNCHANGED <<opts, source, source0, ws, archive, loadFrom, chart, gvk, out,
                   stdout, logged, net, optsRead, stages, depPath, rmFailed>>

\* A deviant branch: the repository option is looked at before the reference
BranchOnRepo ==
    /\ pc = "branch"
    /\ optsRead' = optsRead \cup {"Chart", "Repo"}
    /\ IF opts.Chart = "" /\ opts.Repo = ""
       THEN /\ pc' = "scaffold"
            /\ stages' = Append(stages, "classification")
       ELSE /\ pc' = "stat"
            /\ UNCHANGED stages
    /\ UNCHANGED <<opts, source, source0, tmpDir, ws, archive, loadFrom, chart,
                   gvk, r, c, err, out, stdout, logged, calls, net, depPath,
                   rmFailed>>

\* CreateChart, line 133: len(opts.Chart) == 0
Branch ==
    /\ pc = "branch"
    /\ optsRead' = optsRead \cup {"Chart"}
    /\ IF opts.Chart = ""
       THEN /\ pc' = "scaffold"
            /\ stages' = Append(stages, "classification")
       ELSE /\ pc' = "stat"
            /\ UNCHANGED stages
    /\ UNCHANGED <<opts, source, source0, tmpDir, ws, archive, loadFrom, chart,
                   gvk, r, c, err, out, stdout, logged, calls, net, depPath,
                   rmFailed>>

-----------------------------------------------------------------------------
(* scaffoldChart *)

\* line 160: chartutil.Create(strings.ToLower(opts.GVK.Kind), destDir) writes
\* helm's default chart, which declares no dependencies
ScaffoldCreate ==
    /\ pc = "scaffold"
    /\ calls' = Called("Create")
    /\ optsRead' = optsRead \cup {"Kind"}
    /\ \E ok \in BOOLEAN :
         IF ok
         THEN /\ ws' = WriteDir(ToLower(opts.Kind),
                                [name |-> ToLower(opts.Kind), declared |-> 0,
                                 vendored |-> 0])
              /\ pc' = "scaffold_load"
              /\ UNCHANGED <<r, c, err>>
         ELSE /\ Abort(ScaffoldErr("Create"))
              /\ UNCHANGED ws
    /\ UNCHANGED <<opts, source, source0, tmpDir, archive, loadFrom, chart, gvk,
                   out, stdout, logged, net, stages, depPath, rmFailed>>

\* line 164: loader.Load(chartPath)
ScaffoldLoad ==
    /\ pc = "scaffold_load"
    /\ calls' = Called("Load")
    /\ \E ok \in LoadOutcomes(AtPath(ToLower(opts.Kind)).chart) :
         IF ok
         THEN /\ chart' = Snapshot(AtPath(ToLower(opts.Kind)).chart)
              /\ stages' = Append(stages, "acquisition")
              /\ pc' = "scaffold_resource"
              /\ UNCHANGED <<r, c, err>>
         ELSE /\ Abort(ScaffoldErr("Load"))
              /\ UNCHANGED <<chart, stages>>
    /\ UNCHANGED <<opts, source, source0, tmpDir, ws, archive, loadFrom, gvk,
                   out, stdout, logged, net, optsRead, depPath, rmFailed>>

\* NewResource, lines 196-211: the identity is the GVK as it stands
NewResource(g) == [Group |-> g.Group, Version |-> g.Version, Kind |-> g.Kind]

\* line 169 and CreateChart line 134: opts.NewResource(cfg) on the options as
\* passed; r, c are assigned
ScaffoldResource ==
    /\ pc = "scaffold_resource"
    /\ optsRead' = optsRead \cup {"Group", "GVKVersion", "Kind"}
    /\ r' = NewResource(gvk)
    /\ c' = chart
    /\ err' = Nil
    /\ stages' = Append(stages, "identity")
    /\ pc' = "deps"
    /\ UNCHANGED <<opts, source, source0, tmpDir, ws, archive, loadFrom, chart,
                   gvk, out, stdout, logged, calls, net, depPath, rmFailed>>

-----------------------------------------------------------------------------
(* fetchChart *)

\* A deviant classification: a repository option makes the reference remote
StatAfterRepo ==
    /\ pc = "stat"
    /\ calls' = Called("Stat")
    /\ optsRead' = optsRead \cup {"Chart", "Repo"}
    /\ stages' = Append(stages, "classification")
    /\ IF source # Absent /\ opts.Repo = ""
       THEN pc' = "disk" /\ loadFrom' = "local"
       ELSE pc' = "remote" /\ UNCHANGED loadFrom
    /\ UNCHANGED <<opts, source, source0, tmpDir, ws, archive, chart, gvk, r, c,
                   err, out, stdout, logged, net, depPath, rmFailed>>

\* lines 173-177: os.Stat(opts.Chart) chooses createChartFromDisk or
\* createChartFromRemote
Stat ==
    /\ pc = "stat"
    /\ calls' = Called("Stat")
    /\ optsRead' = optsRead \cup {"Chart"}
    /\ stages' = Append(stages, "classification")
    /\ IF source # Absent
       THEN pc' = "disk" /\ loadFrom' = "local"
       ELSE pc' = "remote" /\ UNCHANGED loadFrom
    /\ UNCHANGED <<opts, source, source0, tmpDir, ws, archive, chart, gvk, r, c,
                   err, out, stdout, logged, net, depPath, rmFailed>>

\* createChartFromRemote, lines 236-242: repo.FindChartInRepoURL, only with a
\* custom repository
FindChartInRepoURL ==
    /\ pc = "remote"
    /\ opts.Repo # ""
    /\ calls' = Called("FindChartInRepoURL")
    /\ net' = net \cup {"index"}
    /\ optsRead' = optsRead \cup {"Repo", "Chart", "Version"}
    /\ \E ok \in BOOLEAN :
         IF ok
         THEN pc' = "download" /\ UNCHANGED <<r, c, err>>
         ELSE Abort(FetchErr("FindChartInRepoURL"))
    /\ UNCHANGED <<opts, source, source0, tmpDir, ws, archive, loadFrom, chart,
                   gvk, out, stdout, logged, stages, depPath, rmFailed>>

\* A deviant failure handling: a failed download is attempted again
DownloadRetried ==
    IF calls["DownloadTo"] < 2
    THEN pc' = "download" /\ UNCHANGED <<r, c, err>>
    ELSE Abort(FetchErr("DownloadTo"))

\* lines 245-247: a failed download ends createChartFromRemote
DownloadFailed == Abort(FetchErr("DownloadTo"))

\* lines 244-249: c.DownloadTo(opts.Chart, opts.Version, destDir), then
\* createChartFromDisk on the archive
DownloadTo ==
    /\ \/ pc = "remote" /\ opts.Repo = ""
       \/ pc = "download"
    /\ calls' = Called("DownloadTo")
    /\ net' = net \cup {"download"}
    /\ optsRead' = optsRead \cup {"Repo", "Chart", "Version"}
    /\ \E ok \in BOOLEAN :
         IF ok
         THEN /\ \E a \in DiskCharts \cup {Malformed} : archive' = a
              /\ loadFrom' = "archive"
              /\ pc' = "disk"
              /\ UNCHANGED <<r, c, err>>
         ELSE /\ DownloadFailed
              /\ UNCHANGED <<archive, loadFrom>>
    /\ UNCHANGED <<opts, source, source0, tmpDir, ws, chart, gvk, out, stdout,
                   logged, stages, depPath, rmFailed>>

\* the source argument of createChartFromDisk
DiskSource == IF loadFrom = "local" THEN source ELSE archive

\* createChartFromDisk, lines 214-217: loader.Load(source)
DiskLoad ==
    /\ pc = "disk"
    /\ calls' = Called("Load")
    /\ \E ok \in LoadOutcomes(DiskSource) :
         IF ok
         THEN /\ chart' = Snapshot(DiskSource)
              /\ pc' = "save"
              /\ UNCHANGED <<r, c, err>>
         ELSE /\ Abort(FetchErr("Load"))
              /\ UNCHANGED chart
    /\ UNCHANGED <<opts, source, source0, tmpDir, ws, archive, loadFrom, gvk, out,
                   stdout, logged, net, optsRead, stages, depPath, rmFailed>>

\* A deviant failure handling: the error of SaveDir is dropped and fetchChart
\* goes on
SaveFailureIgnored == pc' = "identity" /\ UNCHANGED <<r, c, err>>

\* lines 220-222: a failed SaveDir ends createChartFromDisk
SaveFailed == Abort(FetchErr("SaveDir"))

\* createChartFromDisk, lines 220-223: chartutil.SaveDir(chart, destDir) writes
\* the loaded chart to destDir/<chart name>
SaveDir ==
    /\ pc = "save"
    /\ calls' = Called("SaveDir")
    /\ \E ok \in BOOLEAN :
         IF ok
         THEN /\ ws' = WriteDir(chart.name, DiskSource)
              /\ stages' = Append(stages, "acquisition")
              /\ pc' = "identity"
              /\ UNCHANGED <<r, c, err>>
         ELSE /\ SaveFailed
              /\ UNCHANGED <<ws, stages>>
    /\ UNCHANGED <<opts, source, source0, tmpDir, archive, loadFrom, chart, gvk,
                   out, stdout, logged, net, optsRead, depPath, rmFailed>>

\* A deviant defaulting: the chart's name always decides the Kind
DefaultGVKFromChart(g, chartName) ==
    [ Group   |-> IF g.Group = "" THEN DefaultGroup ELSE g.Group,
      Version |-> IF g.Version = "" THEN DefaultVersion ELSE g.Version,
      Kind    |-> ToCamel(chartName) ]

\* lines 182-191: unset GVK fields are defaulted
DefaultGVK(g, chartName) ==
    [ Group   |-> IF g.Group = "" THEN DefaultGroup ELSE g.Group,
      Version |-> IF g.Version = "" THEN DefaultVersion ELSE g.Version,
      Kind    |-> IF Len(g.Kind) = 0 THEN ToCamel(chartName) ELSE g.Kind ]

\* lines 182-193 and CreateChart line 139: the identity is derived from the
\* acquired chart's name; r, c are assigned
DeriveIdentity ==
    /\ pc = "identity"
    /\ optsRead' = optsRead \cup {"Group", "GVKVersion", "Kind"}
    /\ gvk' = DefaultGVK(gvk, chart.name)
    /\ r' = NewResource(gvk')
    /\ c' = chart
    /\ err' = Nil
    /\ stages' = Append(stages, "identity")
    /\ pc' = "deps"
    /\ UNCHANGED <<opts, source, source0, tmpDir, ws, archive, loadFrom, chart,
                   out, stdout, logged, calls, net, depPath, rmFailed>>

-----------------------------------------------------------------------------
(* fetchChartDependencies and the reload *)

\* A deviant handling of the buffer: it is printed whatever the outcome
PrintedAlways(ok, buf) == Append(stdout, buf)

\* lines 264-268: fmt.Println(out.String()) only when man.Build() failed
Printed(ok, buf) == IF ok THEN stdout ELSE Append(stdout, buf)

\* A deviant path: dependency resolution is pointed at the chart reference
\* the caller gave instead of the copy in the workspace
AbsChartPathOfSource == [root |-> "source", name |-> c.name]

\* CreateChart line 145: absChartPath = filepath.Join(tmpDir, c.Name())
AbsChartPath == [root |-> "tmpDir", name |-> c.name]

\* whether a chart directory exists at a location
ExistsAt(loc) ==
    IF loc.root = "tmpDir" THEN HasPath(loc.name) ELSE source \in DiskCharts

\* the chart directory at a location
ChartAt(loc) == IF loc.root = "tmpDir" THEN AtPath(loc.name).chart ELSE source

\* CreateChart lines 145-148 and fetchChartDependencies: man.Build() on
\* absChartPath downloads the declared dependencies into the charts/ directory
\* of the chart at that path and writes its diagnostics to the buffer
FetchChartDependencies ==
    /\ pc = "deps"
    /\ calls' = Called("Build")
    /\ depPath' = AbsChartPath
    /\ \E ok \in (IF ExistsAt(depPath') THEN BOOLEAN ELSE {FALSE}), buf \in OutBuffers :
         /\ out' = buf
         /\ stdout' = Printed(ok, buf)
         /\ IF ExistsAt(depPath')
            THEN LET d == ChartAt(depPath') IN
                 /\ net' = net \cup (IF d.declared > 0 THEN {"deps"} ELSE {})
                 /\ \E v \in d.vendored..d.declared :
                      /\ ok => v = d.declared
                      /\ IF depPath'.root = "tmpDir"
                         THEN /\ ws' = WriteDir(depPath'.name, [d EXCEPT !.vendored = v])
                              /\ UNCHANGED source
                         ELSE /\ source' = [d EXCEPT !.vendored = v]
                              /\ UNCHANGED ws
            ELSE UNCHANGED <<net, ws, source>>
         /\ IF ok
            THEN /\ stages' = Append(stages, "dependencies")
                 /\ pc' = "reload"
                 /\ UNCHANGED <<r, c, err>>
            ELSE /\ Abort(DepsErr("Build"))
                 /\ UNCHANGED stages
    /\ UNCHANGED <<opts, source0, tmpDir, archive, loadFrom, chart, gvk,
                   logged, optsRead, rmFailed>>

\* A deviant end of CreateChart: the chart loaded at acquisition is returned
\* without loading the chart directory again
ReloadSkipped ==
    /\ pc = "reload"
    /\ calls' = Called("Load")
    /\ Return(r, c, Nil)
    /\ stages' = Append(stages, "reload")
    /\ UNCHANGED <<opts, source, source0, tmpDir, ws, archive, loadFrom, chart,
                   gvk, out, stdout, logged, net, optsRead, depPath, rmFailed>>

\* CreateChart lines 151-156: loader.Load(absChartPath), then return r, c, nil
Reload ==
    /\ pc = "reload"
    /\ calls' = Called("Load")
    /\ \E ok \in LoadOutcomes(ChartAt(depPath)) :
         IF ok
         THEN /\ Return(r, Snapshot(ChartAt(depPath)), Nil)
              /\ stages' = Append(stages, "reload")
         ELSE /\ Abort(LoadErr("Load"))
              /\ UNCHANGED stages
    /\ UNCHANGED <<opts, source, source0, tmpDir, ws, archive, loadFrom, chart,
                   gvk, out, stdout, logged, net, optsRead, depPath, rmFailed>>

-----------------------------------------------------------------------------
(* The deferred function, lines 125-129 *)

\* A deviant deferred function: a removal error is assigned to the named result
CleanupEscalating ==
    /\ pc = "defer"
    /\ calls' = Called("RemoveAll")
    /\ \E ok \in BOOLEAN :
         IF ok
         THEN /\ tmpDir' = "removed"
              /\ ws' = {}
              /\ archive' = Absent
              /\ UNCHANGED <<logged, rmFailed, r, c, err>>
         ELSE /\ logged' = logged + 1
              /\ rmFailed' = TRUE
              /\ r' = Nil
              /\ c' = Nil
              /\ err' = UnwrappedErr("RemoveAll")
              /\ UNCHANGED <<tmpDir, ws, archive>>
    /\ pc' = "done"
    /\ UNCHANGED <<opts, source, source0, loadFrom, chart, gvk, out, stdout,
                   net, optsRead, stages, depPath>>

\* os.RemoveAll(tmpDir); its error is a variable of the closure's own and is
\* only logged
Cleanup ==
    /\ pc = "defer"
    /\ calls' = Called("RemoveAll")
    /\ \E ok \in BOOLEAN :
         IF ok
         THEN /\ tmpDir' = "removed"
              /\ ws' = {}
              /\ archive' = Absent
              /\ UNCHANGED <<logged, rmFailed>>
         ELSE /\ logged' = logged + 1
              /\ rmFailed' = TRUE
              /\ UNCHANGED <<tmpDir, ws, archive>>
    /\ pc' = "done"
    /\ UNCHANGED <<opts, source, source0, loadFrom, chart, gvk, r, c, err, out,
                   stdout, net, optsRead, stages, depPath>>

-----------------------------------------------------------------------------

Next ==
    \/ TempDir
    \/ Branch
    \/ ScaffoldCreate
    \/ ScaffoldLoad
    \/ ScaffoldResource
    \/ Stat
    \/ FindChartInRepoURL
    \/ DownloadTo
    \/ DiskLoad
    \/ SaveDir
    \/ DeriveIdentity
    \/ FetchChartDependencies
    \/ Reload
    \/ Cleanup

Spec == Init /\ [][Next]_vars

-----------------------------------------------------------------------------
(* Properties *)

Returned == pc = "done"

Allocated == tmpDir # "unallocated"

Succeeded == Returned /\ err = Nil

AllStages == <<"classification", "acquisition", "identity", "dependencies", "reload">>

Range(s) == { s[i] : i \in 1..Len(s) }

IsPrefix(s, t) == Len(s) <= Len(t) /\ \A i \in 1..Len(s) : s[i] = t[i]

\* C1 as stated: once CreateChart has returned with the workspace allocated,
\* the workspace directory no longer exists, whatever stage it ended in.
C1_WorkspaceGoneAfterReturn ==
    (Returned /\ Allocated) => tmpDir = "removed"

\* C1 amended: once CreateChart has returned with the workspace allocated,
\* the removal of the workspace was attempted exactly once, whatever stage the
\* invocation ended in; the directory is gone when that removal succeeded, and
\* when it failed the failure was logged once and the directory remains.
C1_WorkspaceRemovalAttempted ==
    (Returned /\ Allocated) =>
        /\ calls["RemoveAll"] = 1
        /\ ~rmFailed => (tmpDir = "removed" /\ ws = {} /\ logged = 0)
        /\ rmFailed => (tmpDir = "present" /\ logged = 1)

\* C1 witness: a dependency-resolution failure after which the workspace is gone
C1_Witness ==
    /\ Returned
    /\ err = DepsErr("Build")
    /\ tmpDir = "removed"

\* C2: CreateChart returns either (resource, chart, nil) after every stage has
\* succeeded, or (nil, nil, error); a failed stage keeps every later stage
\* from running.
C2_AllOrNothing ==
    /\ Returned =>
         \/ r # Nil /\ c # Nil /\ err = Nil /\ stages = AllStages
         \/ r = Nil /\ c = Nil /\ err # Nil /\ stages # AllStages
    /\ err # Nil =>
         /\ pc \in {"defer", "done"}
         /\ err.cause = "TempDir" =>
              \A op \in CallNames \ {"TempDir"} : calls[op] = 0
         /\ err.cause = "Create" => calls["Load"] = 0
         /\ err.cause = "FindChartInRepoURL" => calls["DownloadTo"] = 0
         /\ err.cause \in {"FindChartInRepoURL", "DownloadTo"} => calls["Load"] = 0
         /\ (err.cause = "Load" /\ calls["Build"] = 0) => calls["SaveDir"] = 0
         /\ err.cause \in {"Create", "FindChartInRepoURL", "DownloadTo", "SaveDir"} =>
              (calls["Build"] = 0 /\ Len(stages) <= 1)
         /\ err.cause = "Build" => (calls["Load"] = 1 /\ Len(stages) = 3)

\* C2 witness: dependency resolution fails after the resource and the chart
\* had been produced, and neither is returned
C2_Witness ==
    /\ Returned
    /\ err = DepsErr("Build")
    /\ chart # Nil
    /\ r = Nil
    /\ c = Nil

\* C3: the deferred removal never changes the results of CreateChart: the
\* resource, chart and error set by the return statement are what is returned,
\* whether the removal succeeds or fails.
C3_RemovalFailureKeepsResults ==
    [][pc = "defer" => (r' = r /\ c' = c /\ err' = err)]_vars

\* C3 witness: a successful invocation whose workspace removal failed
C3_Witness ==
    /\ Returned
    /\ rmFailed
    /\ err = Nil
    /\ r # Nil
    /\ c # Nil

\* C4: a non-empty chart reference that exists locally is loaded from disk;
\* the repository index lookup and the archive download are never invoked,
\* whatever Repo and Version are, and the remote strategy runs only when the
\* reference does not exist locally.
C4_LocalPathTakesPrecedence ==
    /\ (opts.Chart # "" /\ source # Absent) =>
         /\ calls["FindChartInRepoURL"] = 0
         /\ calls["DownloadTo"] = 0
         /\ net \cap {"index", "download"} = {}
         /\ pc \notin {"remote", "download"}
         /\ calls["Stat"] = 1 => loadFrom = "local"
         /\ "acquisition" \in Range(stages) => calls["Load"] >= 1
    /\ (pc \in {"remote", "download"} \/ loadFrom = "archive") => source = Absent

\* C4 witness: a reference that also reads as a remote chart name, with Repo
\* and Version set, exists locally and is acquired from disk
C4_Witness ==
    /\ Succeeded
    /\ opts.Chart = "myrepo/app"
    /\ opts.Repo # ""
    /\ opts.Version # ""
    /\ source \in DiskCharts
    /\ loadFrom = "local"

\* C5: with an empty chart reference CreateChart takes the scaffold path,
\* performs no network I/O in any stage, and never consults Repo or Version.
C5_EmptyReferenceScaffolds ==
    opts.Chart = "" =>
        /\ net = {}
        /\ optsRead \cap {"Repo", "Version"} = {}
        /\ \A op \in {"Stat", "FindChartInRepoURL", "DownloadTo", "SaveDir"} :
             calls[op] = 0
        /\ pc \notin {"stat", "remote", "download", "disk", "save", "identity"}
        /\ "acquisition" \in Range(stages) => calls["Create"] = 1

\* C5 witness: an empty reference with Repo and Version set runs through
\* dependency resolution to success
C5_Witness ==
    /\ Succeeded
    /\ opts.Chart = ""
    /\ opts.Repo # ""
    /\ opts.Version # ""
    /\ calls["Build"] = 1

\* the identity the claim expects for options o and an acquired chart name
ExpectedIdentity(o, chartName) ==
    [ Group   |-> IF o.Group # "" THEN o.Group ELSE "charts",
      Version |-> IF o.GVKVersion # "" THEN o.GVKVersion ELSE "v1alpha1",
      Kind    |-> IF o.Kind # <<>> THEN o.Kind ELSE ToCamel(chartName) ]

HasLetter(s) == \E i \in 1..Len(s) : IsLower(s[i]) \/ IsUpper(s[i])

\* C6 as stated: after acquisition by any strategy a successful CreateChart
\* returns an identity whose Group, Version and Kind are the explicit options
\* when non-empty and otherwise "charts", "v1alpha1" and the upper-camel-case
\* chart name, and none of them is empty.
C6_IdentityDefaultedForAllStrategies ==
    Succeeded =>
        /\ r = ExpectedIdentity(opts, chart.name)
        /\ r.Group # ""
        /\ r.Version # ""
        /\ r.Kind # <<>>

\* C6 amended: for a non-empty chart reference (local load, remote fetch) a
\* successful CreateChart returns Group, Version and Kind equal to the explicit
\* option when it is non-empty and otherwise "charts", "v1alpha1" and the
\* upper-camel-case form of the acquired chart's name (my-app gives MyApp);
\* Group and Version are never empty and Kind is non-empty when the chart's
\* name holds a letter.  For an empty reference (scaffold) the identity is the
\* supplied Group, Version and Kind unchanged, with no defaulting.
C6_FetchedIdentityDefaulted ==
    Succeeded =>
        IF opts.Chart # ""
        THEN /\ r = ExpectedIdentity(opts, chart.name)
             /\ r.Group # ""
             /\ r.Version # ""
             /\ (opts.Kind # <<>> \/ HasLetter(chart.name)) => r.Kind # <<>>
             /\ (opts.Kind = <<>> /\ chart.name = <<"m", "y", "-", "a", "p", "p">>)
                    => r.Kind = <<"M", "y", "A", "p", "p">>
        ELSE r = [Group |-> opts.Group, Version |-> opts.GVKVersion,
                  Kind |-> opts.Kind]

\* C6 witness: chart my-app fetched with no explicit GVK yields charts/v1alpha1/MyApp
C6_Witness ==
    /\ Succeeded
    /\ opts.Chart # ""
    /\ opts.Group = "" /\ opts.GVKVersion = "" /\ opts.Kind = <<>>
    /\ chart.name = <<"m", "y", "-", "a", "p", "p">>
    /\ r = [Group |-> "charts", Version |-> "v1alpha1",
            Kind |-> <<"M", "y", "A", "p", "p">>]

\* C7 as stated: the stages complete in the order classification, acquisition,
\* dependency resolution, reload, identity derivation.
C7_IdentityDerivedLast ==
    IsPrefix(stages,
             <<"classification", "acquisition", "dependencies", "reload", "identity">>)

\* C7 amended: the stages run strictly in the order classification,
\* acquisition, identity derivation, dependency resolution, reload; each starts
\* only after the previous one completed successfully, so the identity is
\* derived from the chart loaded at acquisition, before dependency resolution
\* and the reload.
C7_StagesInCodeOrder ==
    /\ IsPrefix(stages, AllStages)
    /\ r # Nil => IsPrefix(<<"classification", "acquisition", "identity">>, stages)
    /\ calls["Build"] > 0 => (Len(stages) >= 3 /\ calls["Load"] >= 1)
    /\ pc = "reload" => Len(stages) = 4
    /\ (err # Nil /\ Returned) => stages # AllStages

\* C7 witness: an invocation that completed all five stages
C7_Witness ==
    /\ Succeeded
    /\ stages = AllStages

BuildFailed == calls["Build"] >= 1 /\ "dependencies" \notin Range(stages)

\* C8: the diagnostics captured during dependency resolution are printed if
\* and only if the build of dependencies fails: on success nothing of the
\* buffer is surfaced, on failure the whole buffer is printed once and the
\* build error is returned.
C8_DiagnosticsOnlyOnFailure ==
    /\ calls["Build"] = 0 => stdout = <<>>
    /\ (calls["Build"] >= 1 /\ ~BuildFailed) => stdout = <<>>
    /\ BuildFailed =>
         /\ stdout = <<out>>
         /\ err = DepsErr("Build")
         /\ r = Nil /\ c = Nil

\* C8 witness: a failed build whose non-empty buffer was printed
C8_Witness ==
    /\ Returned
    /\ BuildFailed
    /\ Len(out) > 0
    /\ stdout = <<out>>

\* C9: the repository index lookup, the archive download and the dependency
\* resolution are each attempted at most once per invocation, and the first
\* failure of any of them ends the invocation with an error.
C9_NoStageRetried ==
    /\ \A op \in {"FindChartInRepoURL", "DownloadTo", "Build"} : calls[op] <= 1
    /\ (calls["FindChartInRepoURL"] >= 1 /\ calls["DownloadTo"] = 0 /\ pc # "download") =>
         (pc \in {"defer", "done"} /\ err = FetchErr("FindChartInRepoURL"))
    /\ (calls["DownloadTo"] >= 1 /\ loadFrom # "archive") =>
         (pc \in {"defer", "done"} /\ err = FetchErr("DownloadTo"))
    /\ BuildFailed =>
         (pc \in {"defer", "done"} /\ err = DepsErr("Build"))

\* C9 witness: a download that failed once and ended the invocation
C9_Witness ==
    /\ Returned
    /\ calls["DownloadTo"] = 1
    /\ calls["FindChartInRepoURL"] = 1
    /\ err = FetchErr("DownloadTo")

\* the error kinds of the specification, as the message each stage's error is
\* wrapped in
ScaffoldError == "failed to scaffold default chart"

FetchError == "failed to fetch chart"

DependencyError == "failed to fetch chart dependencies"

LoadError == "failed to load chart"

\* C10 as stated: a malformed chart at a local reference yields a LoadError, a
\* lookup or download failure a FetchError, a template write failure a
\* ScaffoldError, an unresolved dependency a DependencyError and a failed
\* reload a LoadError, so a local load failure never carries the kind of a
\* remote fetch failure.
C10_KindPerFailingOperation ==
    (err # Nil /\ err.cause # "TempDir") =>
        /\ err.cause = "Create" => err.wrap = ScaffoldError
        /\ err.cause \in {"FindChartInRepoURL", "DownloadTo"} => err.wrap = FetchError
        /\ err.cause = "Build" => err.wrap = DependencyError
        /\ (err.cause = "Load" /\ opts.Chart # "") =>
              (err.wrap = LoadError /\ err.wrap # FetchError)

\* C10 amended: every failure is reported with the message of the top-level
\* stage of CreateChart it occurred in: any failure inside scaffoldChart
\* (template write or load of the scaffolded chart) is "failed to scaffold
\* default chart", any failure inside fetchChart (load of a local chart,
\* repository lookup, download, load of the downloaded archive, save into the
\* workspace) is "failed to fetch chart", a dependency build failure is
\* "failed to fetch chart dependencies", a failed reload is "failed to load
\* chart", and a workspace allocation failure is returned unwrapped; a load
\* failure of a local chart carries the same kind as a remote fetch failure.
C10_KindPerTopLevelStage ==
    err # Nil =>
        /\ err.cause = "TempDir" <=> err.wrap = ""
        /\ (err.cause # "TempDir" /\ calls["Build"] = 0 /\ opts.Chart = "") =>
              (err.wrap = ScaffoldError /\ err.cause \in {"Create", "Load"})
        /\ (err.cause # "TempDir" /\ calls["Build"] = 0 /\ opts.Chart # "") =>
              /\ err.wrap = FetchError
              /\ err.cause \in {"FindChartInRepoURL", "DownloadTo", "Load", "SaveDir"}
        /\ BuildFailed => (err.wrap = DependencyError /\ err.cause = "Build")
        /\ "dependencies" \in Range(stages) =>
              (err.wrap = LoadError /\ err.cause = "Load")

\* C10 witness: a malformed chart at a local reference, reported as a fetch failure
C10_Witness ==
    /\ Returned
    /\ source = Malformed
    /\ loadFrom = "local"
    /\ err = [wrap |-> "failed to fetch chart", cause |-> "Load"]

\* C11: on every successful invocation the chart returned is the snapshot
\* loaded from the workspace chart directory after dependency resolution, not
\* the one loaded at acquisition: every declared dependency is in its
\* dependency list (one declared dependency gives a list of length 1), and a
\* scaffolded chart is named by the lower-cased Kind and has no dependencies.
C11_ReturnedChartIsReloaded ==
    /\ (pc = "defer" /\ err = Nil) =>
         /\ c = Snapshot(ChartAt(depPath))
         /\ depPath.root = "tmpDir"
    /\ Succeeded =>
         /\ c.name = chart.name
         /\ c.deps = c.declared
         /\ c.declared = 1 => c.deps = 1
         /\ chart.deps < chart.declared => c # chart
         /\ opts.Chart = "" => (c.name = ToLower(opts.Kind) /\ c.deps = 0)

\* C11 witness: a local chart declaring one dependency that was not yet in its
\* charts/ directory is returned with that dependency loaded
C11_Witness ==
    /\ Succeeded
    /\ opts.Chart = "./local-chart"
    /\ source0 \in DiskCharts
    /\ source0.declared = 1
    /\ source0.vendored = 0
    /\ chart.deps = 0
    /\ Len(c.name) > 0
    /\ c.deps = 1

\* C12: dependency resolution and the reload operate on the directory
\* <workspace>/<chart name>, the one place where acquisition wrote the chart
\* (scaffold, local load and remote download alike), and the local source
\* named by the chart reference is never written: it is what it was when
\* CreateChart was called.
C12_DependenciesResolvedInWorkspace ==
    /\ source = source0
    /\ pc = "deps" =>
         /\ Cardinality(ws) = 1
         /\ HasPath(c.name)
         /\ AtPath(c.name).chart.name = c.name
    /\ calls["Build"] >= 1 =>
         depPath = [root |-> "tmpDir", name |-> chart.name]
    /\ (calls["Build"] >= 1 /\ pc \in {"reload", "defer"}) =>
         /\ ExistsAt(depPath)
         /\ ws = { [path |-> chart.name, chart |-> ChartAt(depPath)] }
         /\ ChartAt(depPath).name = chart.name

\* C12 witness: a local chart whose missing dependency was resolved in the
\* workspace copy, the source still lacking it
C12_Witness ==
    /\ Returned
    /\ opts.Chart = "./local-chart"
    /\ "dependencies" \in Range(stages)
    /\ source \in DiskCharts
    /\ source.declared = 1
    /\ source.vendored = 0
    /\ depPath = [root |-> "tmpDir", name |-> source.name]

====
